---- MODULE Spec2Model ----
(***************************************************************************)
(* Replaced-token-detection pre-training (train_rtd_flax.py): the masking  *)
(* collator, the pmapped train_step and the driver loop of main().         *)
(***************************************************************************)
EXTENDS Integers, Sequences, FiniteSets, TLC

(***************************************************************************)
(* Bounds of the model.                                                    *)
(***************************************************************************)
\* size of the tokenizer's vocabulary (ids 0 .. VocabSize-1)
VocabSize == 3
\* number of token positions of one raw batch handed to the collator
SeqLen == 2

\* jax.local_device_count()
NumDevices == 2
\* number of train_step invocations in the runs that follow one step closely
MaxCalls == 2
\* largest gradient_accumulation_steps, num_train_steps, logging_steps,
\* save_steps and number of batches of the dataset in the driver's runs
MaxAccum == 2
MaxTrainSteps == 2
MaxLogEvery == 3
MaxSaveEvery == 2
MaxDatasetLen == 3

\* labels[~masked_indices] = -100
IGNORE == -100
\* loss = loss.sum() * 50
LossScale == 50

Vocab == 0 .. (VocabSize - 1)
Pos == 1 .. SeqLen
\* tokenizer.convert_tokens_to_ids(tokenizer.mask_token): the last id
MaskId == VocabSize - 1
\* tokenizer.all_special_ids always holds the mask token; id 0 may or may
\* not be reserved
SpecialSets == {{MaskId}, {0, MaskId}}
\* mlm_probability: 0.0, strictly between 0 and 1, 1.0
MlmProbs == {"zero", "mid", "one"}

\* What numpy's random stream gives one position in the four vectorised
\* draws of mask_tokens: sel for binomial(1, probability_matrix), rep for
\* binomial(1, 0.8), rnd for binomial(1, 0.5), word for randint(vocab_size).
\* Outcomes that differ only in a draw the code discards (rnd and word
\* under rep, word without rnd) are one run: one representative of each.
PosDraws ==
    {[sel |-> b, rep |-> TRUE, rnd |-> FALSE, word |-> 0] : b \in BOOLEAN}
    \cup {[sel |-> b, rep |-> FALSE, rnd |-> FALSE, word |-> 0] : b \in BOOLEAN}
    \cup {[sel |-> b, rep |-> FALSE, rnd |-> TRUE, word |-> w] :
            b \in BOOLEAN, w \in Vocab}
\* One seeded state of numpy's global random stream over positions P
Streams(P) == [P -> PosDraws]

VARIABLES
    all_special_ids,   \* tokenizer.all_special_ids
    mlm_probability,   \* FlaxDataCollatorForMaskedLM.mlm_probability
    mem,               \* numpy arrays by reference: ref -> array
    given,             \* the token ids the caller passed to the latest call
    stream,            \* the seeded state of np.random
    out1,              \* batch returned by the first collator call
    out2,              \* batch returned by the second collator call
    cpc,               \* position of the collator harness
    disc_in,           \* pred_ids / replaced_ids synthesised from out1
    args,              \* training_args and the number of batches of the dataset
    pc,                \* position of main()'s training loop
    cur_step,          \* cur_step
    minibatch_idx,     \* minibatch_idx
    it,                \* batches the current pass over the dataset has yielded
    generator_state,   \* replicated TrainState of the generator, per device
    discriminator_state, \* replicated TrainState of the discriminator
    dropout_rngs,      \* per-device rng keys
    train_metric,      \* metrics returned by p_train_step, per device
    batch,             \* the collated, sharded batch, per device
    obs,               \* what the latest train_step computed on the way
    key_uses,          \* every use of an rng key so far
    consumed,          \* micro-batches handed to p_train_step so far
    wandb_log,         \* what wandb.log received
    checkpoints        \* what save_pretrained wrote

cvars == <<all_special_ids, mlm_probability, mem, given, stream, out1, out2, cpc,
           disc_in>>
dvars == <<args, pc, cur_step, minibatch_idx, it, generator_state,
           discriminator_state, dropout_rngs, train_metric, batch, obs, key_uses,
           consumed, wandb_log, checkpoints>>
vars == <<cvars, dvars>>

(***************************************************************************)
(* FlaxDataCollatorForMaskedLM                                             *)
(***************************************************************************)
\* np.random.binomial(1, p) at one position; u is the stream's outcome there
binomial(p, u) ==
    IF p = "zero" THEN FALSE ELSE IF p = "one" THEN TRUE ELSE u

\* special_tokens_mask |= input_ids == special_token, for each special id
get_special_tokens_mask(special_ids, input_ids) ==
    [i \in DOMAIN input_ids |-> \E s \in special_ids : input_ids[i] = s]

\* np.full(labels.shape, mlm_probability) with the special positions left
\* at mlm_probability
probability_matrix_nozero(p, special_tokens_mask) ==
    [i \in DOMAIN special_tokens_mask |-> p]

\* np.full(labels.shape, mlm_probability); probability_matrix[special] = 0.0
probability_matrix(p, special_tokens_mask) ==
    [i \in DOMAIN special_tokens_mask |->
        IF special_tokens_mask[i] THEN "zero" ELSE p]

\* mask_tokens(inputs, special_tokens_mask): inputs is the array at
\* reference r of memory m and is written in place; labels and
\* masked_indices are new arrays.
mask_tokens(m, r, special_tokens_mask, p, s) ==
    LET inputs == m[r]
        D == DOMAIN inputs
        pm == probability_matrix(p, special_tokens_mask)
        masked_indices == [i \in D |-> binomial(pm[i], s[i].sel)]
        labels == [i \in D |-> IF masked_indices[i] THEN inputs[i] ELSE IGNORE]
        indices_replaced == [i \in D |-> binomial("mid", s[i].rep) /\ masked_indices[i]]
        inputs1 == [i \in D |-> IF indices_replaced[i] THEN MaskId ELSE inputs[i]]
        indices_random ==
            [i \in D |-> binomial("mid", s[i].rnd)
                         /\ masked_indices[i] /\ ~indices_replaced[i]]
        inputs2 == [i \in D |-> IF indices_random[i] THEN s[i].word ELSE inputs1[i]]
    IN  [mem |-> [m EXCEPT ![r] = inputs2],
         inputs |-> r, labels |-> labels, masked_indices |-> masked_indices]

\* FlaxDataCollatorForMaskedLM.__call__(input_ids): input_ids is the
\* reference r.  The batch's input_ids and original_ids are both the array
\* passed in (no copy is taken), mask_tokens returns that same array.
collator_call(m, r, special_ids, p, s) ==
    LET special_tokens_mask == get_special_tokens_mask(special_ids, m[r])
        mt == mask_tokens(m, r, special_tokens_mask, p, s)
    IN  [mem |-> mt.mem,
         batch |-> [input_ids |-> mt.inputs,
                    attention_mask |-> [i \in DOMAIN m[r] |-> 1],
                    original_ids |-> r,
                    labels |-> mt.labels,
                    masked_indices |-> mt.masked_indices]]

NoBatch == [none |-> TRUE]

\* main() before the training loop is entered, for runs of the collator alone
LoopIdle ==
    /\ args = NoBatch
    /\ pc = "idle"
    /\ cur_step = 0
    /\ minibatch_idx = 0
    /\ it = 0
    /\ generator_state = NoBatch
    /\ discriminator_state = NoBatch
    /\ dropout_rngs = NoBatch
    /\ train_metric = NoBatch
    /\ batch = NoBatch
    /\ obs = NoBatch
    /\ key_uses = {}
    /\ consumed = 0
    /\ wandb_log = <<>>
    /\ checkpoints = <<>>

CollatorInit ==
    /\ all_special_ids \in SpecialSets
    /\ mlm_probability \in MlmProbs
    /\ \E a \in [Pos -> Vocab] : mem = (1 :> a) /\ given = a
    /\ stream = NoBatch
    /\ out1 = NoBatch
    /\ out2 = NoBatch
    /\ cpc = "start"
    /\ disc_in = NoBatch
    /\ LoopIdle

\* np.random is seeded, then the collator is called on the caller's array
CollatorFirstCall ==
    /\ cpc = "start"
    /\ \E s \in Streams(Pos) :
         LET c == collator_call(mem, 1, all_special_ids, mlm_probability, s)
         IN  /\ stream' = s
             /\ mem' = c.mem
             /\ out1' = c.batch
    /\ cpc' = "once"
    /\ UNCHANGED <<all_special_ids, mlm_probability, given, out2, disc_in, dvars>>

\* np.random is reset to the same seed and the collator is called again on
\* the same array object
CollatorSecondCallSameArray ==
    /\ cpc = "once"
    /\ LET c == collator_call(mem, 1, all_special_ids, mlm_probability, stream)
       IN  /\ mem' = c.mem
           /\ out2' = c.batch
    /\ given' = mem[1]
    /\ cpc' = "twice"
    /\ UNCHANGED <<all_special_ids, mlm_probability, stream, out1, disc_in, dvars>>

\* np.random is reset to the same seed and the collator is called again on
\* a new array holding the token ids the caller had before the first call
CollatorSecondCallNewArray ==
    /\ cpc = "once"
    /\ LET c == collator_call(mem @@ (2 :> given), 2, all_special_ids,
                              mlm_probability, stream)
       IN  /\ mem' = c.mem
           /\ out2' = c.batch
    /\ cpc' = "twice_new"
    /\ UNCHANGED <<all_special_ids, mlm_probability, given, stream, out1, disc_in,
                   dvars>>

CollatorNext ==
    \/ CollatorFirstCall
    \/ CollatorSecondCallSameArray
    \/ CollatorSecondCallNewArray

SpecCollator == CollatorInit /\ [][CollatorNext]_vars

\* the value a batch field holds, read through the array it refers to
Field(b, f) == IF f \in {"input_ids", "original_ids"} THEN mem[b[f]] ELSE b[f]

(***************************************************************************)
(* train_step: discriminator input synthesis                               *)
(***************************************************************************)
\* a batch with every field as the array it holds
Values(m, b) ==
    [input_ids |-> m[b.input_ids], attention_mask |-> b.attention_mask,
     original_ids |-> m[b.original_ids], labels |-> b.labels,
     masked_indices |-> b.masked_indices]

\* pred_ids = sampled everywhere: the jnp.where on masked_indices left out
discriminator_inputs_nowhere(b, sampled) ==
    [pred_ids |-> sampled,
     replaced_ids |-> [i \in DOMAIN sampled |-> sampled[i] # b.original_ids[i]]]

\* pred_ids = jnp.where(masked_indices, argmax(logits + gumbel), input_ids);
\* replaced_ids = pred_ids != original_ids.  sampled is the argmax.
discriminator_inputs(b, sampled) ==
    LET pred_ids == [i \in DOMAIN sampled |->
                        IF b.masked_indices[i] THEN sampled[i] ELSE b.input_ids[i]]
    IN  [pred_ids |-> pred_ids,
         replaced_ids |-> [i \in DOMAIN sampled |-> pred_ids[i] # b.original_ids[i]]]

\* batch = data_collator(batch.numpy()): one call, np.random as it stands
CollateBatch ==
    /\ cpc = "start"
    /\ \E s \in Streams(Pos) :
         LET c == collator_call(mem, 1, all_special_ids, mlm_probability, s)
         IN  /\ mem' = c.mem
             /\ out1' = c.batch
    /\ cpc' = "collated"
    /\ UNCHANGED <<all_special_ids, mlm_probability, given, stream, out2, disc_in,
                   dvars>>

\* the generator's logits and the Gumbel noise are free: any id may be the
\* argmax at any position
SynthesiseDiscriminatorInputs ==
    /\ cpc = "collated"
    /\ \E sampled \in [Pos -> Vocab] :
         disc_in' = [sampled |-> sampled,
                     out |-> discriminator_inputs(Values(mem, out1), sampled)]
    /\ cpc' = "synthesised"
    /\ UNCHANGED <<all_special_ids, mlm_probability, mem, given, stream, out1, out2,
                   dvars>>

SynthesisNext ==
    \/ CollateBatch
    \/ SynthesiseDiscriminatorInputs

SpecSynthesis == CollatorInit /\ [][SynthesisNext]_vars

(***************************************************************************)
(* Numbers, rng keys, TrainState                                           *)
(***************************************************************************)
Dev == 1 .. NumDevices
\* positions of a raw batch of the training loop: one row of SeqLen tokens
\* for each device
BatchPos == 1 .. (NumDevices * SeqLen)

RECURSIVE SumOver(_, _)
\* x.sum() of the array x over the index set S
SumOver(x, S) ==
    IF S = {} THEN 0
    ELSE LET i == CHOOSE j \in S : TRUE IN x[i] + SumOver(x, S \ {i})

RECURSIVE GCD(_, _)
GCD(a, b) == IF b = 0 THEN a ELSE GCD(b, a % b)
Abs(x) == IF x < 0 THEN -x ELSE x
Sign(x) == IF x < 0 THEN -1 ELSE IF x = 0 THEN 0 ELSE 1

\* x / n with a zero n replaced by one: the division a guard would give
Divide_guarded(x, n) ==
    IF n = 0 THEN [num |-> x, den |-> 1]
    ELSE LET g == GCD(Abs(x), n) IN [num |-> x \div g, den |-> n \div g]

\* x / n of two float scalars, n >= 0, as a fraction in lowest terms.  A
\* zero n gives what float division gives: nan for 0/0 (num 0, den 0), inf
\* or -inf otherwise (num 1 or -1, den 0).
Divide(x, n) ==
    IF n = 0 THEN [num |-> Sign(x), den |-> 0]
    ELSE LET g == GCD(Abs(x), n) IN [num |-> x \div g, den |-> n \div g]

\* jax.random.PRNGKey(seed): the root of the tree of keys
PRNGKey == <<>>
\* jax.random.split(key, n): n new keys, children of key
split(key, n) == [i \in 1 .. n |-> Append(key, i)]

\* optax.MultiSteps wraps the optimizer when gradient_accumulation_steps > 1
tx_init(n) ==
    IF n > 1
    THEN [every |-> n, mini_step |-> 0, gradient_step |-> 0, acc_grads |-> <<>>,
          inner |-> <<>>]
    ELSE [every |-> 1, inner |-> <<>>]

\* train_state.TrainState.create(apply_fn, params, tx).  params is the
\* initial parameter tree followed by the updates applied to it.
TrainStateCreate(n) == [step |-> 0, params |-> <<>>, opt_state |-> tx_init(n)]

\* state.apply_gradients(grads): tx.update, optax.apply_updates, step + 1.
\* The chained optimizer's update is a function of the gradients it has
\* seen; MultiSteps emits it on every every-th call, from the gradients
\* accumulated since the last one, and a zero update otherwise.
apply_gradients(state, grads) ==
    LET o == state.opt_state IN
    IF o.every > 1
    THEN IF o.mini_step = o.every - 1
         THEN LET g == Append(o.acc_grads, grads)
              IN  [step |-> state.step + 1,
                   params |-> Append(state.params, g),
                   opt_state |-> [o EXCEPT !.mini_step = 0,
                                           !.gradient_step = @ + 1,
                                           !.acc_grads = <<>>,
                                           !.inner = Append(@, g)]]
         ELSE [step |-> state.step + 1,
               params |-> state.params,
               opt_state |-> [o EXCEPT !.mini_step = @ + 1,
                                       !.acc_grads = Append(@, grads)]]
    ELSE [step |-> state.step + 1,
          params |-> Append(state.params, grads),
          opt_state |-> [o EXCEPT !.inner = Append(@, grads)]]

(***************************************************************************)
(* train_step                                                              *)
(***************************************************************************)
\* jnp.where(labels > 0, 1.0, 0.0)
label_mask(labels) == [i \in DOMAIN labels |-> IF labels[i] > 0 THEN 1 ELSE 0]

\* optax.softmax_cross_entropy(logits, onehot(labels, vocab)): xe is what
\* the logits give against each position's label; the one-hot row of a
\* label outside the vocabulary (-100) is all zero, and so is its term
softmax_cross_entropy(xe, labels) ==
    [i \in DOMAIN labels |-> IF labels[i] \in Vocab THEN xe[i] ELSE 0]

\* generator_loss_fn and its gradient on one device: b the device's shard,
\* n what the network gives there (ce, gce: each position's cross entropy
\* and its gradient)
generator_loss_fn(b, n) ==
    LET m == label_mask(b.labels)
        loss == softmax_cross_entropy(n.ce, b.labels)
        dloss == softmax_cross_entropy(n.gce, b.labels)
    IN  [loss |-> SumOver([i \in DOMAIN m |-> loss[i] * m[i]], DOMAIN m),
         num_labels |-> SumOver(m, DOMAIN m),
         grad |-> SumOver([i \in DOMAIN m |-> dloss[i] * m[i]], DOMAIN m)]

\* discriminator_loss_fn and its gradient on one device (bce, gbce: each
\* position's sigmoid cross entropy against replaced_ids and its gradient)
discriminator_loss_fn(b, n) ==
    LET m == [i \in DOMAIN b.labels |-> 1]
    IN  [loss |-> SumOver(n.bce, DOMAIN m) * LossScale,
         num_labels |-> SumOver(m, DOMAIN m),
         grad |-> SumOver(n.gbce, DOMAIN m) * LossScale]

\* jax.lax.psum(x, "batch"): x holds each device's value
psum(x) == SumOver(x, Dev)

\* the count a device would divide by had num_labels not been psum-med
local_num_labels(num, d) == num[d]

\* num_labels_g = jax.lax.psum(num_labels, "batch"), as device d holds it
global_num_labels(num, d) == psum(num)

\* the generator table read after the generator update instead
generator_embedding_updated(state_g, new_state_g) == new_state_g.params

\* state_g.params["roberta"]["embeddings"]["word_embeddings"]["embedding"] in
\* discriminator_loss_fn, which runs when new_state_g exists too: the table
\* is a part of the parameter tree it is taken from
generator_embedding(state_g, new_state_g) == state_g.params

\* train_step on device d.  sg, sd, b, rngs, n hold every device's
\* TrainStates, batch shard, rng and network outcome; rng is main()'s key,
\* which the body refers to by name for the Gumbel noise.
train_step(d, sg, sd, b, rngs, n, rng) ==
    LET keys == split(rngs[d], 3)
        dropout_rng == keys[1]
        new_dropout_rng == keys[2]
        sample_rng == keys[3]
        g == [e \in Dev |-> generator_loss_fn(b[e], n[e])]
        num_labels_g == global_num_labels([e \in Dev |-> g[e].num_labels], d)
        generator_loss == Divide(psum([e \in Dev |-> g[e].loss]), num_labels_g)
        generator_grad == Divide(psum([e \in Dev |-> g[e].grad]), num_labels_g)
        new_state_g == apply_gradients(sg[d], generator_grad)
        gumbel_key == rng
        din == [e \in Dev |-> discriminator_inputs(b[e], n[e].sampled)]
        dl == [e \in Dev |-> discriminator_loss_fn(b[e], n[e])]
        num_labels_d == global_num_labels([e \in Dev |-> dl[e].num_labels], d)
        discriminator_loss == Divide(psum([e \in Dev |-> dl[e].loss]), num_labels_d)
        discriminator_grad == Divide(psum([e \in Dev |-> dl[e].grad]), num_labels_d)
        new_state_d == apply_gradients(sd[d], discriminator_grad)
    IN  [new_state_g |-> new_state_g,
         new_state_d |-> new_state_d,
         metrics |-> [generator_loss |-> generator_loss,
                      discriminator_loss |-> discriminator_loss],
         new_dropout_rng |-> new_dropout_rng,
         pred_ids |-> din[d].pred_ids,
         replaced_ids |-> din[d].replaced_ids,
         local_g |-> g[d],
         local_d |-> dl[d],
         embed_g |-> generator_embedding(sg[d], new_state_g),
         used |-> {[key |-> rngs[d], use |-> "split"],
                   [key |-> dropout_rng, use |-> "dropout"],
                   [key |-> gumbel_key, use |-> "gumbel"]},
         sample_rng |-> sample_rng]

(***************************************************************************)
(* main(): the training loop                                               *)
(***************************************************************************)
\* flax.training.common_utils.shard: the leading axis split over the devices
shard(b) ==
    [d \in Dev |->
        [f \in DOMAIN b |-> [j \in Pos |-> b[f][(d - 1) * SeqLen + j]]]]

\* minibatch_idx == gradient_accumulation_steps: never an intermediate batch
is_intermediate_never(idx, n) == FALSE

\* if minibatch_idx != training_args.gradient_accumulation_steps: continue
is_intermediate(idx, n) == idx # n

\* what the networks may give on the shards b: at each position a cross
\* entropy from ces with its gradient (free where the label is a vocabulary
\* id, which is where the code reads it), on each device a sigmoid cross
\* entropy from bces with its gradient, and one sampled id from samples
GradAt(c) == 3 - 2 * c
Least(S) == CHOOSE x \in S : \A y \in S : x <= y
DevNet(labels, x, y, v, least) ==
    LET ce == [i \in Pos |-> IF labels[i] \in Vocab THEN x[i] ELSE least]
    IN  [ce |-> ce, gce |-> [i \in Pos |-> GradAt(ce[i])],
         bce |-> [i \in Pos |-> y], gbce |-> [i \in Pos |-> GradAt(y)],
         sampled |-> [i \in Pos |-> v]]
Nets(b, ces, bces, samples) ==
    {[d \in Dev |-> DevNet(b[d].labels, x[d], y[d], v, Least(ces))] :
        x \in [Dev -> [Pos -> ces]], y \in [Dev -> bces], v \in samples}

\* main() up to the training loop, with training_args drawn from argset
LoopInit(argset) ==
    /\ all_special_ids \in SpecialSets
    /\ mlm_probability = "mid"
    /\ mem = <<>>
    /\ given = <<>>
    /\ stream = NoBatch
    /\ out1 = NoBatch
    /\ out2 = NoBatch
    /\ cpc = "idle"
    /\ disc_in = NoBatch
    /\ args \in argset
    /\ pc = "while"
    /\ cur_step = 0
    /\ minibatch_idx = 0
    /\ it = 0
    /\ generator_state =
         [d \in Dev |-> TrainStateCreate(args.gradient_accumulation_steps)]
    /\ discriminator_state =
         [d \in Dev |-> TrainStateCreate(args.gradient_accumulation_steps)]
    /\ dropout_rngs = split(PRNGKey, NumDevices)
    /\ train_metric = NoBatch
    /\ batch = NoBatch
    /\ obs = NoBatch
    /\ key_uses = {[key |-> PRNGKey, use |-> "split", call |-> 0, dev |-> 0]}
    /\ consumed = 0
    /\ wandb_log = <<>>
    /\ checkpoints = <<>>

\* while cur_step < num_train_steps: (a new pass over the dataset)
WhileCheck ==
    /\ pc = "while"
    /\ IF cur_step < args.num_train_steps
       THEN pc' = "for" /\ it' = 0
       ELSE pc' = "done" /\ it' = it
    /\ UNCHANGED <<cvars, args, cur_step, minibatch_idx, generator_state,
                   discriminator_state, dropout_rngs, train_metric, batch, obs,
                   key_uses, consumed, wandb_log, checkpoints>>

\* for batch in dataset: batch = data_collator(batch.numpy()); shard(batch)
FetchBatch(raws, streams) ==
    /\ pc = "for"
    /\ it < args.dataset_len
    /\ \E raw \in raws, s \in streams :
         LET c == collator_call(1 :> raw, 1, all_special_ids, mlm_probability, s)
         IN  batch' = shard(Values(c.mem, c.batch))
    /\ it' = it + 1
    /\ pc' = "fetched"
    /\ UNCHANGED <<cvars, args, cur_step, minibatch_idx, generator_state,
                   discriminator_state, dropout_rngs, train_metric, obs, key_uses,
                   consumed, wandb_log, checkpoints>>

\* for batch in dataset: the pass has yielded its last batch
EndOfPass ==
    /\ pc = "for"
    /\ it >= args.dataset_len
    /\ pc' = "while"
    /\ UNCHANGED <<cvars, args, cur_step, minibatch_idx, it, generator_state,
                   discriminator_state, dropout_rngs, train_metric, batch, obs,
                   key_uses, consumed, wandb_log, checkpoints>>

\* p_train_step(generator_state, discriminator_state, batch, dropout_rngs)
PTrainStep(ces, bces, samples) ==
    /\ pc = "fetched"
    /\ \E n \in Nets(batch, ces, bces, samples) :
         \E r \in {[d \in Dev |->
                      train_step(d, generator_state, discriminator_state, batch,
                                 dropout_rngs, n, PRNGKey)]} :
             /\ generator_state' = [d \in Dev |-> r[d].new_state_g]
             /\ discriminator_state' = [d \in Dev |-> r[d].new_state_d]
             /\ train_metric' = [d \in Dev |-> r[d].metrics]
             /\ dropout_rngs' = [d \in Dev |-> r[d].new_dropout_rng]
             /\ obs' = [net |-> n, state_g |-> generator_state,
                        state_d |-> discriminator_state, rngs |-> dropout_rngs,
                        out |-> r]
             /\ key_uses' = key_uses \cup
                   UNION {{[key |-> u.key, use |-> u.use, call |-> consumed + 1,
                             dev |-> d] : u \in r[d].used} : d \in Dev}
    /\ consumed' = consumed + 1
    /\ pc' = "stepped"
    /\ UNCHANGED <<cvars, args, cur_step, minibatch_idx, it, batch, wandb_log,
                   checkpoints>>

\* the rest of the loop body: minibatch_idx, cur_step, wandb.log,
\* save_pretrained, break.  train_metric has the keys generator_loss and
\* discriminator_loss, so train_metric["loss"] raises KeyError.  batch,
\* train_metric and the step's intermediates are not read again.
Bookkeeping ==
    /\ pc = "stepped"
    /\ LET idx == minibatch_idx + 1
           step == cur_step + 1
           metric == train_metric[1]
           logging == step % args.logging_steps = 0
           saving == step % args.save_steps = 0
       IN  IF is_intermediate(idx, args.gradient_accumulation_steps)
           THEN /\ minibatch_idx' = idx
                /\ pc' = "for"
                /\ train_metric' = NoBatch
                /\ UNCHANGED <<cur_step, wandb_log, checkpoints>>
           ELSE /\ minibatch_idx' = 0
                /\ cur_step' = step
                /\ IF logging /\ "loss" \notin DOMAIN metric
                   THEN /\ pc' = "crashed"
                        /\ UNCHANGED <<train_metric, wandb_log, checkpoints>>
                   ELSE /\ wandb_log' =
                             IF logging
                             THEN Append(wandb_log,
                                         [loss |-> metric["loss"], step |-> step])
                             ELSE wandb_log
                        /\ checkpoints' =
                             IF saving
                             THEN Append(checkpoints,
                                    [step |-> step,
                                     consumed |-> consumed,
                                     generator |-> generator_state[1],
                                     discriminator |-> discriminator_state[1]])
                             ELSE checkpoints
                        /\ train_metric' = NoBatch
                        /\ pc' = IF step >= args.num_train_steps
                                 THEN "while" ELSE "for"
    /\ batch' = NoBatch
    /\ obs' = NoBatch
    /\ UNCHANGED <<cvars, args, it, generator_state, discriminator_state,
                   dropout_rngs, key_uses, consumed>>

\* One train_step followed closely: any raw batch of text (no mask token
\* in it), any selection of positions (a selected position takes the mask
\* token), two outcomes of each loss, one sampled id; no accumulation, no
\* logging.
StepArgs ==
    {[gradient_accumulation_steps |-> 1, logging_steps |-> MaxCalls + 1,
      save_steps |-> 1, num_train_steps |-> MaxCalls, dataset_len |-> 1]}
StepRaws == [BatchPos -> Vocab \ {MaskId}]
StepStreams == [BatchPos -> {x \in PosDraws : x.rep}]
StepLosses == {1, 2}

StepNext ==
    \/ WhileCheck
    \/ FetchBatch(StepRaws, StepStreams)
    \/ EndOfPass
    \/ PTrainStep(StepLosses, StepLosses, {0})
    \/ Bookkeeping

SpecStep == LoopInit(StepArgs) /\ [][StepNext]_vars

\* The loop under every training_args within the bounds, on one batch that
\* is drawn again each time: every non-special position selected and
\* masked, one outcome of the networks.
LoopArgs ==
    [gradient_accumulation_steps : 1 .. MaxAccum,
     logging_steps : 1 .. MaxLogEvery,
     save_steps : 1 .. MaxSaveEvery,
     num_train_steps : 0 .. MaxTrainSteps,
     dataset_len : 0 .. MaxDatasetLen]
LoopRaws == {[i \in BatchPos |-> 1]}
LoopStreams == {[i \in BatchPos |->
                    [sel |-> TRUE, rep |-> TRUE, rnd |-> FALSE, word |-> 0]]}

LoopNext ==
    \/ WhileCheck
    \/ FetchBatch(LoopRaws, LoopStreams)
    \/ EndOfPass
    \/ PTrainStep({1}, {1}, {0})
    \/ Bookkeeping

SpecLoop == LoopInit(LoopArgs) /\ [][LoopNext]_vars

\* The loop on a dataset that yields at least one batch on every pass.  The
\* interpreter runs the statements one after the other, so a step that can
\* be taken is taken.
TermArgs == {a \in LoopArgs : a.dataset_len >= 1}
SpecTermination ==
    LoopInit(TermArgs) /\ [][LoopNext]_vars /\ WF_vars(LoopNext)

\* the batch the latest collator call returned
LatestBatch == IF cpc = "once" THEN out1 ELSE out2
Returned == cpc \in {"once", "twice", "twice_new"}

(***************************************************************************)
(* C1.  As claimed: in the batch the collator returns, labels[i] is -100   *)
(* where masked_indices[i] is false and is original_ids[i], read from that *)
(* same batch, where masked_indices[i] is true.                            *)
(***************************************************************************)
C1_LabelsAgreeWithOriginalIds ==
    Returned =>
        \A i \in DOMAIN LatestBatch.labels :
            LatestBatch.labels[i] =
                IF LatestBatch.masked_indices[i]
                THEN Field(LatestBatch, "original_ids")[i]
                ELSE IGNORE

(***************************************************************************)
(* C2.  As claimed: original_ids of the returned batch holds, at every     *)
(* position, the token id the caller passed in.                            *)
(***************************************************************************)
C2_OriginalIdsUncorrupted ==
    Returned => Field(LatestBatch, "original_ids") = given

(***************************************************************************)
(* C3.  The collator never selects a position whose passed-in id is a      *)
(* special id: masked_indices is false and labels is -100 there, whatever  *)
(* mlm_probability and the draws; with mlm_probability = 1.0 the selected  *)
(* positions are exactly the non-special ones.                             *)
(***************************************************************************)
C3_SpecialNeverSelected ==
    Returned =>
        \A i \in DOMAIN given :
            /\ given[i] \in all_special_ids =>
                    /\ ~LatestBatch.masked_indices[i]
                    /\ LatestBatch.labels[i] = IGNORE
            /\ mlm_probability = "one" =>
                    (LatestBatch.masked_indices[i] <=> given[i] \notin all_special_ids)

\* a first call with mlm_probability = 1.0 on an array holding a special and
\* a non-special id: the non-special position is selected, the special not
C3_Witness ==
    /\ cpc = "once"
    /\ mlm_probability = "one"
    /\ \E i, j \in DOMAIN given :
          /\ given[i] \in all_special_ids
          /\ given[j] \notin all_special_ids
          /\ ~out1.masked_indices[i]
          /\ out1.masked_indices[j]
          /\ out1.labels[j] = given[j]

(***************************************************************************)
(* C4.  As claimed: two calls on the same array, the random stream reset   *)
(* to the same state before each, return identical batches.                *)
(***************************************************************************)
C4_SameArrayTwiceIdentical ==
    cpc = "twice" =>
        \A f \in {"input_ids", "labels", "masked_indices", "original_ids"} :
            Field(out2, f) = Field(out1, f)

(***************************************************************************)
(* C6.  For a batch the collator produced and any sampled ids:             *)
(* replaced_ids[i] holds iff position i was masked and the sampled id      *)
(* differs from original_ids[i] (the batch's field); at an unmasked        *)
(* position replaced_ids[i] is false and pred_ids[i] is the token id the   *)
(* caller passed in.                                                       *)
(***************************************************************************)
C6_ReplacedIffMaskedAndDiffers ==
    cpc = "synthesised" =>
        \A i \in DOMAIN given :
            /\ disc_in.out.replaced_ids[i] <=>
                    (/\ out1.masked_indices[i]
                     /\ disc_in.sampled[i] # Field(out1, "original_ids")[i])
            /\ ~out1.masked_indices[i] =>
                    /\ ~disc_in.out.replaced_ids[i]
                    /\ disc_in.out.pred_ids[i] = given[i]

\* one masked position whose sample differs from original_ids (replaced)
\* beside one unmasked position whose sample differs too (not replaced)
C6_Witness ==
    /\ cpc = "synthesised"
    /\ \E i, j \in DOMAIN given :
          /\ out1.masked_indices[i]
          /\ disc_in.sampled[i] # Field(out1, "original_ids")[i]
          /\ disc_in.out.replaced_ids[i]
          /\ ~out1.masked_indices[j]
          /\ disc_in.sampled[j] # given[j]
          /\ ~disc_in.out.replaced_ids[j]

(***************************************************************************)
(* C5.  After a train_step, on every device, the reported generator loss   *)
(* is (the sum over devices of the per-device summed loss) / (the sum over *)
(* devices of the per-device label count) and the generator gradient       *)
(* applied is (the sum of the per-device gradients) / (the same count),    *)
(* when that count is not zero; the discriminator loss and gradient are    *)
(* reduced the same way with the discriminator's own count.                *)
(***************************************************************************)
C5_GloballyNormalised ==
    pc = "stepped" =>
        LET lg == [e \in Dev |-> obs.out[e].local_g]
            ld == [e \in Dev |-> obs.out[e].local_d]
            count_g == SumOver([e \in Dev |-> lg[e].num_labels], Dev)
            count_d == SumOver([e \in Dev |-> ld[e].num_labels], Dev)
        IN  \A d \in Dev :
              /\ count_g # 0 =>
                   /\ train_metric[d].generator_loss =
                        Divide(SumOver([e \in Dev |-> lg[e].loss], Dev), count_g)
                   /\ generator_state[d].params[Len(generator_state[d].params)] =
                        Divide(SumOver([e \in Dev |-> lg[e].grad], Dev), count_g)
              /\ count_d # 0
              /\ train_metric[d].discriminator_loss =
                   Divide(SumOver([e \in Dev |-> ld[e].loss], Dev), count_d)
              /\ discriminator_state[d].params[Len(discriminator_state[d].params)] =
                   Divide(SumOver([e \in Dev |-> ld[e].grad], Dev), count_d)

\* two shards with unequal label counts: summed loss 2 over 2 labels on the
\* first device, 2 over 1 label on the second.  The reported loss is 4/3;
\* the mean of the per-device means would be 3/2.
C5_Witness ==
    /\ pc = "stepped"
    /\ obs.out[1].local_g.loss = 2
    /\ obs.out[1].local_g.num_labels = 2
    /\ obs.out[2].local_g.loss = 2
    /\ obs.out[2].local_g.num_labels = 1
    /\ train_metric[1].generator_loss = [num |-> 4, den |-> 3]

(***************************************************************************)
(* C7.  With gradient_accumulation_steps = N, in every run of the loop     *)
(* (passes over the dataset that end mid-accumulation included): cur_step  *)
(* is the number of complete groups of N micro-batches consumed, so it     *)
(* never decreases and goes up by one exactly when the Nth micro-batch of  *)
(* a group has been consumed; after an intermediate micro-batch cur_step   *)
(* is unchanged and nothing is logged or saved; every checkpoint is taken  *)
(* at a counter that is a multiple of save_steps, after that many complete *)
(* groups, from the state every micro-batch has already updated; the       *)
(* optimizer has changed the parameters once per complete group.           *)
(***************************************************************************)
C7_CountersAtBoundaries ==
    LET N == args.gradient_accumulation_steps IN
    /\ pc = "stepped" =>
          /\ cur_step = (consumed - 1) \div N
          /\ minibatch_idx = (consumed - 1) % N
    /\ pc # "stepped" =>
          /\ cur_step = consumed \div N
          /\ minibatch_idx = consumed % N
    /\ pc = "crashed" => consumed = cur_step * N
    /\ \A d \in Dev :
          /\ generator_state[d].step = consumed
          /\ Len(generator_state[d].params) = consumed \div N
          /\ Len(discriminator_state[d].params) = consumed \div N
    /\ \A k \in DOMAIN checkpoints :
          LET c == checkpoints[k] IN
          /\ c.step >= 1
          /\ c.step % args.save_steps = 0
          /\ c.consumed = c.step * N
          /\ c.generator.step = c.consumed
          /\ c.discriminator.step = c.consumed
          /\ Len(c.generator.params) = c.step
          /\ Len(c.discriminator.params) = c.step
          /\ N > 1 => /\ c.generator.opt_state.mini_step = 0
                      /\ c.generator.opt_state.gradient_step = c.step
                      /\ c.discriminator.opt_state.mini_step = 0

C7_StepOncePerGroup ==
    LET N == args.gradient_accumulation_steps IN
    /\ cur_step' >= cur_step
    /\ cur_step' # cur_step =>
          /\ cur_step' = cur_step + 1
          /\ pc = "stepped"
          /\ consumed % N = 0
    /\ (pc = "stepped" /\ consumed % N # 0) =>
          /\ cur_step' = cur_step
          /\ wandb_log' = wandb_log
          /\ checkpoints' = checkpoints
          /\ pc' = "for"
    /\ (pc = "stepped" /\ consumed % N = 0) => cur_step' = cur_step + 1

C7_StepCounter == []C7_CountersAtBoundaries /\ [][C7_StepOncePerGroup]_vars

\* N = 2 over a dataset of 3 micro-batches: the second group spans two
\* passes, and a checkpoint is taken at cur_step = 2 after 4 micro-batches
C7_Witness ==
    /\ args.gradient_accumulation_steps = 2
    /\ args.dataset_len = 3
    /\ cur_step = 2
    /\ \E k \in DOMAIN checkpoints :
          /\ checkpoints[k].step = 2
          /\ checkpoints[k].consumed = 4
          /\ checkpoints[k].generator.opt_state.gradient_step = 2

(***************************************************************************)
(* C8.  As claimed: no key is consumed in two different steps or on two    *)
(* different devices (main()'s own split of the seed counted as step 0),   *)
(* the Gumbel noise of a step on a device is drawn from the sampling key   *)
(* split from the rng passed to that step on that device, and the rng      *)
(* returned for the next step was not consumed in this step.               *)
(***************************************************************************)
C8_KeysNeverReused ==
    /\ \A u, v \in key_uses :
          u.key = v.key => (u.call = v.call /\ u.dev = v.dev)
    /\ pc = "stepped" =>
          \A d \in Dev :
              /\ \A u \in obs.out[d].used :
                    u.use = "gumbel" => u.key = obs.out[d].sample_rng
              /\ \A u \in obs.out[d].used : u.key # dropout_rngs[d]

(***************************************************************************)
(* C9.  As claimed: the loop never fails at a logging step, and every      *)
(* effective step done so far whose counter is a multiple of logging_steps *)
(* has its generator loss and discriminator loss in the metrics sink,      *)
(* keyed by the counter.                                                   *)
(***************************************************************************)
C9_LossesLoggedAndLoopContinues ==
    /\ pc # "crashed"
    /\ pc # "stepped" =>
          \A s \in 1 .. cur_step :
              s % args.logging_steps = 0 =>
                  \E k \in DOMAIN wandb_log :
                      /\ wandb_log[k].step = s
                      /\ {"generator_loss", "discriminator_loss"}
                            \subseteq DOMAIN wandb_log[k]

(***************************************************************************)
(* C10.  The replicas start identical, and after any number of train_step  *)
(* calls, whatever the per-device shards and rngs, every device's          *)
(* generator and discriminator TrainState (step, parameters, optimizer     *)
(* state) equals every other device's, and so does the metrics record.     *)
(***************************************************************************)
C10_ReplicasIdentical ==
    \A d, e \in Dev :
        /\ generator_state[d] = generator_state[e]
        /\ discriminator_state[d] = discriminator_state[e]
        /\ pc = "stepped" => train_metric[d] = train_metric[e]

\* after the second train_step, whose devices had different shards,
\* different rngs, different local losses and different label counts
C10_Witness ==
    /\ pc = "stepped"
    /\ consumed = 2
    /\ batch[1] # batch[2]
    /\ obs.rngs[1] # obs.rngs[2]
    /\ obs.out[1].local_g.loss # obs.out[2].local_g.loss
    /\ obs.out[1].local_g.num_labels # obs.out[2].local_g.num_labels
    /\ generator_state[1].step = 2

(***************************************************************************)
(* C11.  When the total over the devices of the counted generator labels   *)
(* (positions with labels > 0) is zero, train_step still divides by it:    *)
(* the reported generator loss and the generator gradient are the nan or   *)
(* inf of a division by zero, that gradient is applied to the generator    *)
(* state on every device all the same, and the loop goes on to the next    *)
(* batch without an error.                                                 *)
(***************************************************************************)
C11_ZeroCount ==
    /\ pc = "stepped"
    /\ SumOver([e \in Dev |-> obs.out[e].local_g.num_labels], Dev) = 0

C11_ZeroCountDividedAndApplied ==
    C11_ZeroCount =>
        \A d \in Dev :
            /\ train_metric[d].generator_loss.den = 0
            /\ generator_state[d].step = obs.state_g[d].step + 1
            /\ Len(generator_state[d].params) = Len(obs.state_g[d].params) + 1
            /\ generator_state[d].params[Len(generator_state[d].params)].den = 0

C11_LoopGoesOn ==
    C11_ZeroCount => /\ pc' \in {"for", "while"}
                     /\ cur_step' = cur_step + 1
                     /\ generator_state' = generator_state

C12_IncomingGeneratorTable ==
    pc = "stepped" =>
        LET lg == [e \in Dev |-> obs.out[e].local_g]
            ld == [e \in Dev |-> obs.out[e].local_d]
            grad_g == Divide(SumOver([e \in Dev |-> lg[e].grad], Dev),
                             SumOver([e \in Dev |-> lg[e].num_labels], Dev))
            grad_d == Divide(SumOver([e \in Dev |-> ld[e].grad], Dev),
                             SumOver([e \in Dev |-> ld[e].num_labels], Dev))
        IN  \A d \in Dev :
              /\ obs.out[d].embed_g = obs.state_g[d].params
              /\ generator_state[d] = apply_gradients(obs.state_g[d], grad_g)
              /\ discriminator_state[d] = apply_gradients(obs.state_d[d], grad_d)

\* a second train_step: the incoming generator state holds the first update,
\* the discriminator read that table, the generator update of this step has
\* changed it since, and the two gradients of this step differ
C12_Witness ==
    /\ pc = "stepped"
    /\ consumed = 2
    /\ Len(obs.state_g[1].params) = 1
    /\ obs.out[1].embed_g = obs.state_g[1].params
    /\ generator_state[1].params # obs.out[1].embed_g
    /\ generator_state[1].params[2] # discriminator_state[1].params[2]

(***************************************************************************)
(* C13.  As claimed: with gradient_accumulation_steps >= 1 and a dataset   *)
(* that yields at least one batch on every pass, the loop eventually       *)
(* leaves its while statement, and does so with cur_step equal to          *)
(* num_train_steps after num_train_steps * gradient_accumulation_steps     *)
(* train steps; cur_step never exceeds num_train_steps and no train step   *)
(* runs once cur_step has reached it.                                      *)
(***************************************************************************)
C13_NoStepAfterLast ==
    consumed' # consumed => cur_step < args.num_train_steps

C13_TerminatesAtNumTrainSteps ==
    /\ <>(pc = "done")
    /\ [](pc = "done" =>
            /\ cur_step = args.num_train_steps
            /\ consumed = args.num_train_steps * args.gradient_accumulation_steps)
    /\ [](cur_step <= args.num_train_steps)
    /\ [][C13_NoStepAfterLast]_vars

====
